---- MODULE Spec2Model ----
(***************************************************************************)
(* Model of the crawl loop of python-novel-crawler (src/main.py, main):    *)
(* configuration check, fetch, status check, extraction and text           *)
(* normalisation, heading reconciliation, per-page write, archive append,  *)
(* next-link resolution and the randomised delay.                          *)
(*                                                                         *)
(* A Python str is modelled as a sequence of one-character strings.  The   *)
(* characters outside ASCII are named tokens ("e_acute", "nbsp", ...).     *)
(* An optional value (None / a value) is the empty / one-element sequence. *)
(***************************************************************************)
EXTENDS Integers, Sequences, FiniteSets, TLC

(***************************************************************************)
(* Bounds of the model.                                                    *)
(***************************************************************************)
\* at most this many GET requests are issued in one run
MaxFetch == 3
\* request_delay_ms is drawn from 0..MaxDelayMs
MaxDelayMs == 3

(***************************************************************************)
(* Characters and the str methods the program uses.                        *)
(***************************************************************************)
UpperLetters ==
  <<"A", "B", "C", "D", "E", "F", "G", "H", "I", "J", "K", "L", "M",
    "N", "O", "P", "Q", "R", "S", "T", "U", "V", "W", "X", "Y", "Z", "E_acute">>

LowerLetters ==
  <<"a", "b", "c", "d", "e", "f", "g", "h", "i", "j", "k", "l", "m",
    "n", "o", "p", "q", "r", "s", "t", "u", "v", "w", "x", "y", "z", "e_acute">>

AsciiLetters ==
  {UpperLetters[i] : i \in 1..26} \cup {LowerLetters[i] : i \in 1..26}

Digits == {"0", "1", "2", "3", "4", "5", "6", "7", "8", "9"}

\* str.isspace(): the characters str.strip() removes and the regex \s matches
Whitespace == {" ", "\n", "\r", "\t", "nbsp"}

\* the complement of the regex \W on transliterated (ASCII) text
WordChars == AsciiLetters \cup Digits \cup {"_"}

\* os.linesep
linesep == <<"\n">>

\* str.lower() on one character
LowerChar(c) ==
  IF \E i \in 1..Len(UpperLetters) : UpperLetters[i] = c
  THEN LowerLetters[CHOOSE i \in 1..Len(UpperLetters) : UpperLetters[i] = c]
  ELSE c

\* str.lower()
Lower(s) == [i \in 1..Len(s) |-> LowerChar(s[i])]

\* str.startswith(p)
StartsWith(s, p) == Len(p) <= Len(s) /\ SubSeq(s, 1, Len(p)) = p

\* the operator "p in s" on str
Contains(s, p) ==
  \E i \in 0..(Len(s) - Len(p)) : SubSeq(s, i + 1, i + Len(p)) = p

\* str.strip()
Strip(s) ==
  LET keep == {i \in 1..Len(s) : s[i] \notin Whitespace}
  IN  IF keep = {} THEN <<>>
      ELSE LET lo == CHOOSE i \in keep : \A j \in keep : i <= j
               hi == CHOOSE i \in keep : \A j \in keep : j <= i
           IN  SubSeq(s, lo, hi)

\* unidecode of one character: a (possibly empty, possibly longer) ASCII string
UnidecodeChar(c) ==
  CASE c = "e_acute" -> <<"e">>
    [] c = "E_acute" -> <<"E">>
    [] c = "sharp_s" -> <<"s", "s">>
    [] c = "nbsp"    -> <<" ">>
    [] OTHER         -> <<c>>

RECURSIVE unidecode(_)
\* unidecode.unidecode(s): character by character
unidecode(s) ==
  IF s = <<>> THEN <<>> ELSE UnidecodeChar(Head(s)) \o unidecode(Tail(s))

RECURSIVE Replace2(_, _, _, _)
\* str.replace(a + b, r) for a two-character pattern: leftmost, non-overlapping
Replace2(s, a, b, r) ==
  IF Len(s) < 2 THEN s
  ELSE IF s[1] = a /\ s[2] = b
       THEN r \o Replace2(SubSeq(s, 3, Len(s)), a, b, r)
       ELSE <<s[1]>> \o Replace2(Tail(s), a, b, r)

\* None and a present value
None == <<>>

Some(v) == <<v>>

(***************************************************************************)
(* Text pipeline of one iteration (main, lines 191-222).                   *)
(***************************************************************************)
S_chapter == <<"c", "h", "a", "p", "t", "e", "r">>

S_hash == <<"#", "#", " ">>

\* length of the run of whitespace at the head of s
SpaceRun(s) ==
  IF \E i \in 1..Len(s) : s[i] \notin Whitespace
  THEN (CHOOSE i \in 1..Len(s) :
          s[i] \notin Whitespace /\ \A j \in 1..(i - 1) : s[j] \in Whitespace) - 1
  ELSE Len(s)

RECURSIVE SubSpaceNonWord(_)
\* re.sub("\\s+|\\W", "_", s): a run of whitespace, or else one non-word
\* character, becomes one underscore
SubSpaceNonWord(s) ==
  IF s = <<>> THEN <<>>
  ELSE IF s[1] \in Whitespace
       THEN <<"_">> \o SubSpaceNonWord(SubSeq(s, SpaceRun(s) + 1, Len(s)))
       ELSE IF s[1] \notin WordChars
            THEN <<"_">> \o SubSpaceNonWord(Tail(s))
            ELSE <<s[1]>> \o SubSpaceNonWord(Tail(s))

RECURSIVE SubUnderscores(_)
\* re.sub("_+", "_", s)
SubUnderscores(s) ==
  IF s = <<>> THEN <<>>
  ELSE IF s[1] = "_" /\ Len(s) >= 2 /\ s[2] = "_"
       THEN SubUnderscores(Tail(s))
       ELSE <<s[1]>> \o SubUnderscores(Tail(s))

\* variant: the second substitution is left out
DeriveFilenameNoCollapse(title) == SubSpaceNonWord(unidecode(title))

\* filename derived from the title
DeriveFilename(title) == SubUnderscores(SubSpaceNonWord(unidecode(title)))

\* content_firstline: the first content node, lower-cased, then stripped
ContentFirstline(contents) == Strip(Lower(contents[1]))

RECURSIVE JoinContents(_)
\* utf8_content: each node's text followed by os.linesep
JoinContents(contents) ==
  IF contents = <<>> THEN <<>>
  ELSE Head(contents) \o linesep \o JoinContents(Tail(contents))

\* fixed_nl_content: literal backslash-n, then literal backslash-r, made real
FixNewlines(s) == Replace2(Replace2(s, "\\", "n", <<"\n">>), "\\", "r", <<"\r">>)

\* variant: the text is stripped first, then the escapes are fixed
NormalizeContentStripFirst(contents) ==
  unidecode(FixNewlines(Strip(JoinContents(contents))))

\* ascii_content before the heading is added
NormalizeContent(contents) == Strip(unidecode(FixNewlines(JoinContents(contents))))

\* variant: the title is looked for as it is, not lower-cased
HasHeadingNoLower(firstline, title) ==
  StartsWith(firstline, S_chapter) \/ Contains(firstline, title)

\* the condition under which no title line is added
HasHeading(firstline, title) ==
  StartsWith(firstline, S_chapter) \/ Contains(firstline, Lower(title))

\* variant: the heading is looked for in the normalized content
ReconcileHeadingOnContent(title, firstline, content) ==
  IF ~HasHeading(Lower(content), title)
  THEN S_hash \o title \o linesep \o content
  ELSE S_hash \o content

\* ascii_content as written to the per-page file
ReconcileHeading(title, firstline, content) ==
  IF ~HasHeading(firstline, title)
  THEN S_hash \o title \o linesep \o content
  ELSE S_hash \o content

(***************************************************************************)
(* urllib.parse.urljoin, as called at main line 242.  The ";params" part   *)
(* of a path is not split off: no URL of the model contains ";".           *)
(***************************************************************************)
S_http == <<"h", "t", "t", "p">>

S_https == <<"h", "t", "t", "p", "s">>

S_ftp == <<"f", "t", "p">>

S_file == <<"f", "i", "l", "e">>

\* urllib.parse.uses_relative and uses_netloc, restricted to common schemes
UsesRelative == {<<>>, S_http, S_https, S_ftp, S_file}

UsesNetloc == {<<>>, S_http, S_https, S_ftp, S_file}

SchemeChars == AsciiLetters \cup Digits \cup {"+", "-", "."}

\* str.find for a set of characters: the first index holding one, or 0
FindFirst(s, cs) ==
  IF \E i \in 1..Len(s) : s[i] \in cs
  THEN CHOOSE i \in 1..Len(s) : s[i] \in cs /\ \A j \in 1..(i - 1) : s[j] \notin cs
  ELSE 0

\* s[i:] for a 1-based index i
From(s, i) == SubSeq(s, i, Len(s))

\* the pair (s[:i-1], s[i:]) for a 1-based index i, or (s, "") when i = 0
CutAt(s, i) == IF i = 0 THEN <<s, <<>>>> ELSE <<SubSeq(s, 1, i - 1), From(s, i)>>

\* urlsplit, the scheme: the pair (scheme, rest) given the index i of the
\* first ":" of u
SchemeAt(u, default, i) ==
  IF /\ i > 1
     /\ u[1] \in AsciiLetters
     /\ \A j \in 1..(i - 1) : u[j] \in SchemeChars
  THEN <<Lower(SubSeq(u, 1, i - 1)), From(u, i + 1)>>
  ELSE <<default, u>>

\* urlsplit, the network location: the pair (netloc, rest)
NetlocOf(r) ==
  IF StartsWith(r, <<"/", "/">>)
  THEN CutAt(From(r, 3), FindFirst(From(r, 3), {"/", "?", "#"}))
  ELSE <<<<>>, r>>

\* the pair (s up to the first character c, s after it)
Partition(s, c) ==
  IF FindFirst(s, {c}) = 0 THEN <<s, <<>>>>
  ELSE <<SubSeq(s, 1, FindFirst(s, {c}) - 1), From(s, FindFirst(s, {c}) + 1)>>

\* urlsplit, the fragment and then the query of what follows the netloc
SplitRest(scheme, netloc, pqf) ==
  [scheme |-> scheme, netloc |-> netloc,
   path |-> Partition(pqf[1], "?")[1], query |-> Partition(pqf[1], "?")[2],
   fragment |-> pqf[2]]

\* urlsplit, after the scheme has been split off
SplitAfterScheme(scheme, nr) == SplitRest(scheme, nr[1], Partition(nr[2], "#"))

\* urlsplit, given the pair (scheme, rest)
SplitFromScheme(sr) == SplitAfterScheme(sr[1], NetlocOf(sr[2]))

\* urllib.parse.urlsplit(u, scheme=default)
urlsplit(u, default) == SplitFromScheme(SchemeAt(u, default, FindFirst(u, {":"})))

\* urlunsplit: the query and the fragment put back
WithQueryFragment(u, query, fragment) ==
  (IF query # <<>> THEN u \o <<"?">> \o query ELSE u)
  \o (IF fragment # <<>> THEN <<"#">> \o fragment ELSE <<>>)

\* urlunsplit: the scheme put back
WithScheme(scheme, u) == IF scheme # <<>> THEN scheme \o <<":">> \o u ELSE u

\* urlunsplit: the network location put back
WithNetloc(scheme, netloc, path) ==
  IF \/ netloc # <<>>
     \/ (scheme # <<>> /\ scheme \in UsesNetloc /\ ~StartsWith(path, <<"/", "/">>))
  THEN <<"/", "/">> \o netloc
       \o (IF path # <<>> /\ path[1] # "/" THEN <<"/">> ELSE <<>>)
       \o path
  ELSE path

\* urllib.parse.urlunsplit
urlunsplit(scheme, netloc, path, query, fragment) ==
  WithQueryFragment(WithScheme(scheme, WithNetloc(scheme, netloc, path)),
                    query, fragment)

RECURSIVE Split(_, _)
\* str.split(c): always at least one (possibly empty) part
Split(s, c) ==
  LET i == FindFirst(s, {c})
  IN  IF i = 0 THEN <<s>> ELSE <<SubSeq(s, 1, i - 1)>> \o Split(From(s, i + 1), c)

RECURSIVE Join(_, _)
\* c.join(parts)
Join(parts, c) ==
  IF parts = <<>> THEN <<>>
  ELSE IF Len(parts) = 1 THEN parts[1]
       ELSE parts[1] \o <<c>> \o Join(Tail(parts), c)

\* segments[1:-1] = filter(None, segments[1:-1])
FilterMiddle(segs) ==
  IF Len(segs) <= 2 THEN segs
  ELSE <<segs[1]>>
       \o SelectSeq(SubSeq(segs, 2, Len(segs) - 1), LAMBDA x : x # <<>>)
       \o <<segs[Len(segs)]>>

RECURSIVE ResolveDots(_, _)
\* the loop of urljoin that removes "." and ".." segments
ResolveDots(segs, acc) ==
  IF segs = <<>> THEN acc
  ELSE IF Head(segs) = <<".", ".">>
       THEN ResolveDots(Tail(segs),
                        IF acc = <<>> THEN acc ELSE SubSeq(acc, 1, Len(acc) - 1))
       ELSE IF Head(segs) = <<".">>
            THEN ResolveDots(Tail(segs), acc)
            ELSE ResolveDots(Tail(segs), Append(acc, Head(segs)))

\* urljoin, the path: the segments of the reference merged with the base's
MergeSegments(baseparts, path) ==
  IF path[1] = "/" THEN Split(path, "/")
  ELSE FilterMiddle(
         (IF baseparts[Len(baseparts)] # <<>>
          THEN SubSeq(baseparts, 1, Len(baseparts) - 1) ELSE baseparts)
         \o Split(path, "/"))

\* urljoin, the path: a trailing "." or ".." leaves a trailing "/"
CloseSegments(resolved, last) ==
  IF last = <<".">> \/ last = <<".", ".">> THEN Append(resolved, <<>>) ELSE resolved

\* urljoin, the path: "/".join(resolved_path) or "/"
JoinSegments(segs) == IF Join(segs, "/") = <<>> THEN <<"/">> ELSE Join(segs, "/")

\* urljoin, the path: dot segments removed from the merged segments
ResolveSegments(segments) ==
  JoinSegments(CloseSegments(ResolveDots(segments, <<>>), segments[Len(segments)]))

\* urljoin, given the split base b and the split reference u
JoinSplit(b, u, url) ==
  IF u.scheme # b.scheme \/ u.scheme \notin UsesRelative THEN url
  ELSE IF u.scheme \in UsesNetloc /\ u.netloc # <<>>
  THEN urlunsplit(u.scheme, u.netloc, u.path, u.query, u.fragment)
  ELSE IF u.path = <<>>
  THEN urlunsplit(u.scheme,
                  IF u.scheme \in UsesNetloc THEN b.netloc ELSE u.netloc,
                  b.path,
                  IF u.query = <<>> THEN b.query ELSE u.query,
                  u.fragment)
  ELSE urlunsplit(u.scheme,
                  IF u.scheme \in UsesNetloc THEN b.netloc ELSE u.netloc,
                  ResolveSegments(MergeSegments(Split(b.path, "/"), u.path)),
                  u.query, u.fragment)

\* urljoin, given the split base b
JoinBase(b, url) == JoinSplit(b, urlsplit(url, b.scheme), url)

\* urllib.parse.urljoin(base, url)
urljoin(base, url) ==
  IF base = <<>> THEN url
  ELSE IF url = <<>> THEN base
  ELSE JoinBase(urlsplit(base, <<>>), url)

(***************************************************************************)
(* Inputs: configurations, and the pages the site may serve.               *)
(***************************************************************************)
\* the scheme separator looked for in src_baseurl
S_sep == <<":", "/", "/">>

\* configured base URLs: with a path, host only, and two without a scheme
BaseNovel == <<"h", "t", "t", "p", "s", ":", "/", "/", "e", "x", "a", "m", "p", "l", "e", ".", "c", "o", "m", "/", "n", "o", "v", "e", "l", "/">>

BaseHost == <<"h", "t", "t", "p", "s", ":", "/", "/", "e", "x", "a", "m", "p", "l", "e", ".", "c", "o", "m">>

BaseNoScheme == <<"e", "x", "a", "m", "p", "l", "e", ".", "c", "o", "m", "/", "n", "o", "v", "e", "l", "/">>

BasePort == <<"e", "x", "a", "m", "p", "l", "e", ".", "c", "o", "m", ":", "8", "0", "/">>

\* serie_starturl
StartUrl == <<"h", "t", "t", "p", "s", ":", "/", "/", "e", "x", "a", "m", "p", "l", "e", ".", "c", "o", "m", "/", "n", "o", "v", "e", "l", "/", "c", "h", "1">>

\* next-link texts a page may carry
L_ch2 == <<"/", "c", "h", "2">>

L_ch1 == <<"/", "n", "o", "v", "e", "l", "/", "c", "h", "1">>

L_pad == <<" ", "/", "c", "h", "3", "\n">>

L_abs == <<"h", "t", "t", "p", "s", ":", "/", "/", "e", "x", "a", "m", "p", "l", "e", ".", "c", "o", "m", "/", "n", "o", "v", "e", "l", "/", "c", "h", "4">>

L_js == <<"j", "a", "v", "a", "s", "c", "r", "i", "p", "t", ":", "v", "o", "i", "d", "(", "0", ")">>

L_rel == <<"c", "h", "2">>

L_net == <<"/", "/", "o", "t", "h", "e", "r", ".", "h", "o", "s", "t", "/", "p">>

L_evil == <<"h", "t", "t", "p", "s", ":", "/", "/", "e", "x", "a", "m", "p", "l", "e", ".", "c", "o", "m", ".", "e", "v", "i", "l", "/", "x">>

\* titles a page may carry
T_ChapterOne == <<"C", "h", "a", "p", "t", "e", "r", " ", "O", "n", "e">>

T_Dawn == <<"A", " ", "N", "e", "w", " ", "D", "a", "w", "n">>

T_DawnDash == <<"A", "-", "N", "e", "w", " ", " ", "D", "a", "w", "n">>

T_Cafe == <<"C", "a", "f", "e_acute", " ", "2">>

T_Two == <<"T", "w", "o">>

T_Mixed == <<" ", "V", "_", " ", "2", "!", "!", "\t", "b", "sharp_s">>

\* texts of content nodes
P_ch1 == <<"C", "h", "a", "p", "t", "e", "r", " ", "O", "n", "e", ":", " ", "t", "h", "e", " ", "b", "e", "g", "i", "n", "n", "i", "n", "g">>

P_sun == <<"t", "h", "e", " ", "s", "u", "n", " ", "r", "o", "s", "e", " ", "s", "l", "o", "w", "l", "y">>

P_cafe == <<" ", "C", "a", "f", "e_acute", " ", "2", "\\", "n", "a", "u", " ", "l", "a", "i", "t", "nbsp">>

P_blank == <<" ", " ">>

P_ch2 == <<"c", "h", "a", "p", "t", "e", "r", " ", "2", " ">>

P_end == <<"T", "h", "e", " ", "E", "n", "d", ".">>

P_esc == <<"f", "i", "n", ".", " ", "\\", "n">>

\* text of a file left by an earlier run
OldText == <<"o", "l", "d">>

\* STATUS_CODE_OK
STATUS_CODE_OK == 200

\* what one GET returns: the status code and the matches of the three xpaths
Page(st, ti, co, nx) == [status |-> st, titles |-> ti, contents |-> co, nexts |-> nx]

Pages ==
  { Page(404, <<T_Dawn>>, <<P_sun>>, <<L_ch2>>),
    Page(204, <<T_Two>>, <<P_sun>>, <<L_ch2>>),
    Page(200, <<>>, <<P_sun>>, <<L_ch2>>),
    Page(200, <<T_Dawn>>, <<>>, <<L_ch2>>),
    Page(200, <<T_ChapterOne>>, <<P_ch1, P_end>>, <<L_ch2>>),
    Page(200, <<T_ChapterOne>>, <<P_ch1>>, <<L_evil>>),
    Page(200, <<T_Dawn>>, <<P_sun>>, <<>>),
    Page(200, <<T_Dawn>>, <<P_sun>>, <<L_ch1>>),
    Page(200, <<T_Dawn>>, <<P_sun>>, <<L_rel>>),
    Page(200, <<T_DawnDash>>, <<P_sun>>, <<L_abs>>),
    Page(200, <<T_Cafe, T_Two>>, <<P_cafe>>, <<L_pad, L_js>>),
    Page(200, <<T_Two>>, <<P_blank, P_ch2>>, <<L_js, L_ch2>>),
    Page(200, <<T_Two>>, <<P_blank, P_ch2>>, <<L_net>>),
    Page(200, <<T_Mixed>>, <<P_esc>>, <<>>) }

BaseUrls == {BaseNovel, BaseHost, BaseNoScheme, BasePort}

\* a file of the output directory
File(n, x) == [name |-> n, text |-> x]

\* the output directory before the run: empty, or holding the files of an
\* earlier run (a per-page file and the combined archive)
PriorOutputs ==
  { [files |-> {}, archive |-> None],
    [files |-> {File(DeriveFilename(T_Dawn), OldText)},
     archive |-> Some(OldText \o linesep)] }

(***************************************************************************)
(* State.                                                                  *)
(***************************************************************************)
VARIABLES
  pc,                 \* position in main
  src_baseurl,        \* configuration, fixed during a run
  serie_combine_flag,
  request_delay_ms,
  url,                \* the cursor: None or the URL to fetch next
  response,           \* None or the page returned by the last GET
  title,              \* locals of the loop body
  filename,
  content_firstline,
  ascii_content,
  files,              \* per-page files of the output directory
  archive,            \* None or the text of the combined archive
  rand_ms,            \* None or the duration drawn by the running delay()
  outcome,            \* "" while running, else the exception that ended main
  gets,               \* history: the URLs requested
  served,             \* history: the pages received
  created,            \* history: the per-page files written by this run
  delays,             \* history: number of calls of delay()
  prior               \* the output directory as it was before the run

vars ==
  <<pc, src_baseurl, serie_combine_flag, request_delay_ms, url, response,
    title, filename, content_firstline, ascii_content, files, archive,
    rand_ms, outcome, gets, served, created, delays, prior>>

config == <<src_baseurl, serie_combine_flag, request_delay_ms, prior>>

locals == <<title, filename, content_firstline, ascii_content>>

outputs == <<files, archive, created>>

Init ==
  /\ pc = "config"
  /\ src_baseurl \in BaseUrls
  /\ serie_combine_flag \in BOOLEAN
  /\ request_delay_ms \in 0..MaxDelayMs
  /\ prior \in PriorOutputs
  /\ files = prior.files
  /\ archive = prior.archive
  /\ url = None
  /\ response = None
  /\ title = <<>>
  /\ filename = <<>>
  /\ content_firstline = <<>>
  /\ ascii_content = <<>>
  /\ rand_ms = None
  /\ outcome = ""
  /\ gets = <<>>
  /\ served = <<>>
  /\ created = <<>>
  /\ delays = 0

(***************************************************************************)
(* Steps of main.                                                          *)
(***************************************************************************)
\* an uncaught exception (or SystemExit) ends main
Raise(exc) == pc' = "done" /\ outcome' = exc

\* exit status of the interpreter for the way main ended: an uncaught
\* exception exits with 1, and so does SystemExit raised with a str argument
ExitStatus(exc) == IF exc = "" THEN 0 ELSE 1

\* variant: any colon counts as a protocol
HasProtocolColon(baseurl) == Contains(Lower(baseurl), <<":">>)

\* the configuration check in front of the loop
HasProtocol(baseurl) == Contains(Lower(baseurl), S_sep)

\* lines 152-160
CheckConfig ==
  /\ pc = "config"
  /\ IF ~HasProtocol(src_baseurl)
     THEN Raise("SystemError") /\ UNCHANGED url
     ELSE pc' = "fetch" /\ url' = Some(StartUrl) /\ UNCHANGED outcome
  /\ UNCHANGED <<config, response, locals, outputs, rand_ms, gets, served, delays>>

\* lines 163-173: the GET; it returns a response or raises a transport error
Fetch ==
  /\ pc = "fetch"
  /\ url # None
  /\ Len(gets) < MaxFetch
  /\ gets' = Append(gets, url[1])
  /\ rand_ms' = None
  /\ \/ \E page \in Pages :
          /\ response' = Some(page)
          /\ served' = Append(served, page)
          /\ pc' = "status"
          /\ UNCHANGED outcome
     \/ /\ Raise("ConnectionError")
        /\ UNCHANGED <<response, served>>
  /\ UNCHANGED <<config, url, locals, outputs, delays>>

\* variant: only client and server errors are rejected
StatusOkBelow400(code) == code < 400

\* the status-code contract
StatusOk(code) == code = STATUS_CODE_OK

\* variant: a bad status removes what the run wrote before it gives up
CheckStatusCleanup ==
  /\ pc = "status"
  /\ IF ~StatusOk(response[1].status)
     THEN /\ Raise("RequestException")
          /\ files' = prior.files
          /\ archive' = prior.archive
     ELSE pc' = "extract" /\ UNCHANGED <<outcome, files, archive>>
  /\ UNCHANGED <<config, url, response, locals, created, rand_ms, gets, served, delays>>

\* lines 177-185
CheckStatus ==
  /\ pc = "status"
  /\ IF ~StatusOk(response[1].status)
     THEN Raise("RequestException")
     ELSE pc' = "extract" /\ UNCHANGED outcome
  /\ UNCHANGED <<config, url, response, locals, outputs, rand_ms, gets, served, delays>>

\* variant: the end of the chain is detected before the page is written
ExtractEndsEarly ==
  /\ pc = "extract"
  /\ LET page == response[1]
     IN  IF page.titles = <<>> \/ page.contents = <<>>
         THEN Raise("IndexError") /\ UNCHANGED locals
         ELSE /\ title' = page.titles[1]
              /\ filename' = DeriveFilename(page.titles[1])
              /\ content_firstline' = ContentFirstline(page.contents)
              /\ ascii_content' =
                   ReconcileHeading(page.titles[1],
                                    ContentFirstline(page.contents),
                                    NormalizeContent(page.contents))
              /\ IF page.nexts = <<>>
                 THEN Raise("SystemExit")
                 ELSE pc' = "write" /\ UNCHANGED outcome
  /\ UNCHANGED <<config, url, response, outputs, rand_ms, gets, served, delays>>

\* variant: an empty content match list is taken as empty content
ExtractLenient ==
  /\ pc = "extract"
  /\ LET page == response[1]
     IN  IF page.titles = <<>>
         THEN Raise("IndexError") /\ UNCHANGED locals
         ELSE /\ title' = page.titles[1]
              /\ filename' = DeriveFilename(page.titles[1])
              /\ content_firstline' =
                   IF page.contents = <<>> THEN <<>>
                   ELSE ContentFirstline(page.contents)
              /\ ascii_content' =
                   ReconcileHeading(page.titles[1],
                                    IF page.contents = <<>> THEN <<>>
                                    ELSE ContentFirstline(page.contents),
                                    NormalizeContent(page.contents))
              /\ pc' = "write"
              /\ UNCHANGED outcome
  /\ UNCHANGED <<config, url, response, outputs, rand_ms, gets, served, delays>>

\* lines 189-222: title, filename and content; [0] on an empty match list
\* raises IndexError
Extract ==
  /\ pc = "extract"
  /\ LET page == response[1]
     IN  IF page.titles = <<>>
         THEN Raise("IndexError") /\ UNCHANGED locals
         ELSE /\ title' = page.titles[1]
              /\ filename' = DeriveFilename(page.titles[1])
              /\ IF page.contents = <<>>
                 THEN Raise("IndexError")
                      /\ UNCHANGED <<content_firstline, ascii_content>>
                 ELSE /\ content_firstline' = ContentFirstline(page.contents)
                      /\ ascii_content' =
                           ReconcileHeading(page.titles[1],
                                            ContentFirstline(page.contents),
                                            NormalizeContent(page.contents))
                      /\ pc' = "write"
                      /\ UNCHANGED outcome
  /\ UNCHANGED <<config, url, response, outputs, rand_ms, gets, served, delays>>

\* pathlib.Path.exists on the per-page path
Exists(fs, name) == \E f \in fs : f.name = name

\* variant: a page whose file exists is skipped and the crawl goes on
WriteContentSkip ==
  /\ pc = "write"
  /\ IF Exists(files, filename)
     THEN UNCHANGED <<files, created>>
     ELSE /\ files' = files \cup {File(filename, ascii_content)}
          /\ created' = Append(created, filename)
  /\ pc' = IF Exists(files, filename) THEN "next" ELSE "append"
  /\ UNCHANGED outcome
  /\ UNCHANGED <<config, url, response, locals, archive, rand_ms, gets, served, delays>>

\* variant: write_content without the exists() check, open(path, "w") truncates
WriteContentOverwrite ==
  /\ pc = "write"
  /\ files' = {f \in files : f.name # filename} \cup {File(filename, ascii_content)}
  /\ created' = Append(created, filename)
  /\ pc' = "append"
  /\ UNCHANGED outcome
  /\ UNCHANGED <<config, url, response, locals, archive, rand_ms, gets, served, delays>>

\* lines 225 and 68-87: write_content
WriteContent ==
  /\ pc = "write"
  /\ IF Exists(files, filename)
     THEN Raise("FileExistsError") /\ UNCHANGED <<files, created>>
     ELSE /\ files' = files \cup {File(filename, ascii_content)}
          /\ created' = Append(created, filename)
          /\ pc' = "append"
          /\ UNCHANGED outcome
  /\ UNCHANGED <<config, url, response, locals, archive, rand_ms, gets, served, delays>>

\* variant: the archive is opened with "w" and holds the last text only
AppendToTruncating(old, text) == Some(text)

\* open(path, "a+") then write: the text at the end of the (created) file
AppendTo(old, text) == Some((IF old = None THEN <<>> ELSE old[1]) \o text)

\* lines 226-229 and 90-105: append_content when the combine flag is set
AppendContent ==
  /\ pc = "append"
  /\ IF serie_combine_flag
     THEN /\ ascii_content' = ascii_content \o linesep
          /\ archive' = AppendTo(archive, ascii_content \o linesep)
     ELSE UNCHANGED <<ascii_content, archive>>
  /\ pc' = "next"
  /\ UNCHANGED <<config, url, response, title, filename, content_firstline,
                 files, created, rand_ms, outcome, gets, served, delays>>

\* the check of line 241 on the stripped first match
ValidNext(link, baseurl) == StartsWith(link, <<"/">>) \/ StartsWith(link, baseurl)

\* variant: the next URL built by gluing the link to the base URL
ResolveNextConcat(matches, baseurl) ==
  IF matches = <<>> THEN None
  ELSE LET relative_nexturl == Strip(matches[1])
       IN  IF ValidNext(relative_nexturl, baseurl)
           THEN Some(IF StartsWith(relative_nexturl, baseurl)
                     THEN relative_nexturl
                     ELSE baseurl \o relative_nexturl)
           ELSE None

\* the link resolver: None for end of chapters, else the next URL
ResolveNext(matches, baseurl) ==
  IF matches = <<>> THEN None
  ELSE LET relative_nexturl == Strip(matches[1])
       IN  IF ValidNext(relative_nexturl, baseurl)
           THEN Some(urljoin(baseurl, relative_nexturl))
           ELSE None

\* lines 232-250 up to the call of delay
FindNext ==
  /\ pc = "next"
  /\ LET next_url == ResolveNext(response[1].nexts, src_baseurl)
     IN  IF next_url = None
         THEN /\ Raise("SystemExit")
              /\ url' = IF response[1].nexts = <<>> THEN url ELSE None
         ELSE /\ url' = next_url
              /\ pc' = "delay"
              /\ UNCHANGED outcome
  /\ UNCHANGED <<config, response, locals, outputs, rand_ms, gets, served, delays>>

\* random.randrange(a, b): the values it may return (none: ValueError)
RandRange(a, b) == a..(b - 1)

\* the sleep durations delay(average_ms) may draw, in milliseconds
DelayRange(average_ms) ==
  LET deviation_ms == average_ms \div 2
  IN  RandRange(average_ms - deviation_ms, average_ms + deviation_ms)

\* lines 246 and 108-120: delay(request_delay_ms)
Delay ==
  /\ pc = "delay"
  /\ delays' = delays + 1
  /\ IF DelayRange(request_delay_ms) = {}
     THEN Raise("ValueError") /\ UNCHANGED rand_ms
     ELSE /\ \E d \in DelayRange(request_delay_ms) : rand_ms' = Some(d)
          /\ pc' = "fetch"
          /\ UNCHANGED outcome
  /\ UNCHANGED <<config, url, response, locals, outputs, gets, served>>

Next ==
  \/ CheckConfig
  \/ Fetch
  \/ CheckStatus
  \/ Extract
  \/ WriteContent
  \/ AppendContent
  \/ FindNext
  \/ Delay

Spec == Init /\ [][Next]_vars

(***************************************************************************)
(* Properties.                                                             *)
(***************************************************************************)
\* once main has ended nothing is fetched, written or appended any more
StaysStopped ==
  pc = "done" => (pc' = "done" /\ UNCHANGED <<outcome, gets, files, archive, created>>)

\* the last page received
LastPage == served[Len(served)]

\* C1: a response with a status code other than 200 aborts the run in that
\* iteration: the step that sees it raises RequestException and leaves the
\* per-page files and the archive as they are; such a response is always the
\* last one received, no file was created for it, and after the abort no
\* further GET, write or append happens.
C1_BadStatusAborts ==
  /\ [](\A i \in 1..Len(served) :
          served[i].status # 200 =>
            /\ i = Len(served)
            /\ Len(gets) = i
            /\ Len(created) < i
            /\ pc \in {"status", "done"}
            /\ pc = "done" => outcome = "RequestException")
  /\ [][/\ (pc = "status" /\ LastPage.status # 200) =>
             (/\ pc' = "done"
              /\ outcome' = "RequestException"
              /\ UNCHANGED <<gets, files, archive, created>>)
        /\ StaysStopped]_vars

\* a second page answered 404 and the run ended with RequestException
C1_Witness ==
  /\ pc = "done"
  /\ outcome = "RequestException"
  /\ Len(served) = 2
  /\ LastPage.status = 404
  /\ Len(created) = 1

\* C2: when the per-page path of the current page already exists, the write
\* step raises FileExistsError, the files (so the existing file's text) and
\* the archive are unchanged, and after the abort no further GET, write or
\* append happens.
C2_CollisionAborts ==
  /\ [](outcome = "FileExistsError" => pc = "done")
  /\ [][/\ (pc = "write" /\ \E f \in files : f.name = filename) =>
             (/\ pc' = "done"
              /\ outcome' = "FileExistsError"
              /\ UNCHANGED <<gets, files, archive, created>>)
        /\ StaysStopped]_vars

\* the run collided with the file of an earlier page of the same run whose
\* title was different
C2_Witness ==
  /\ outcome = "FileExistsError"
  /\ Len(served) = 2
  /\ created = <<filename>>
  /\ served[1].titles[1] # served[2].titles[1]
  /\ \E f \in files : f.name = filename /\ f.text # ascii_content

\* a page that passes the status check and has a title and content
Healthy(page) == page.status = 200 /\ page.titles # <<>> /\ page.contents # <<>>

\* the first next-link match of the page, trimmed, passes a prefix check
HasValidLink(page) ==
  /\ page.nexts # <<>>
  /\ \/ StartsWith(Strip(page.nexts[1]), <<"/">>)
     \/ StartsWith(Strip(page.nexts[1]), src_baseurl)

\* the pages received so far are the first pages of a chain: all healthy,
\* with pairwise distinct derived filenames, every page but the last with a
\* valid next link, in an output directory that was empty
ChainSoFar ==
  /\ prior.files = {}
  /\ Len(served) >= 1
  /\ Len(gets) = Len(served)
  /\ \A i \in 1..Len(served) : Healthy(served[i])
  /\ \A i, j \in 1..Len(served) :
       i # j => DeriveFilename(served[i].titles[1]) # DeriveFilename(served[j].titles[1])
  /\ \A i \in 1..(Len(served) - 1) : HasValidLink(served[i])

\* C3: on a chain of n pages the run does not stop before the n-th page (the
\* one without a next-link match), and when it has stopped it has ended with
\* the end-of-chapters exit and has created exactly n per-page files.
C3_ChainCompletes ==
  ChainSoFar =>
    /\ (pc = "done" /\ LastPage.nexts = <<>>) =>
         (outcome = "SystemExit" /\ Len(created) = Len(served))
    /\ HasValidLink(LastPage) => pc # "done"

\* C4: the exit status is 0 exactly when main ended by the end-of-chapters
\* exit, and non-zero for every error.
C4_ExitStatusDistinguishes ==
  pc = "done" => (ExitStatus(outcome) = 0 <=> outcome = "SystemExit")

R_ch2 == <<"h", "t", "t", "p", "s", ":", "/", "/", "e", "x", "a", "m", "p", "l", "e", ".", "c", "o", "m", "/", "c", "h", "2">>

\* the step ends the run by the end-of-chapters exit
EndsChain == pc' = "done" /\ outcome' = "SystemExit"

\* the step moves the cursor to u and goes on to the delay
Advances(u) == pc' = "delay" /\ url' = Some(u) /\ outcome' = ""

\* C5: link resolution is three-way.  No next-link match ends the chain; a
\* first match that, trimmed, starts with "/" or with the base URL string
\* moves the cursor to its resolution against the base URL ("/ch2" against
\* "https://example.com/novel/" gives "https://example.com/ch2"); a first
\* match with neither prefix ends the chain ("javascript:void(0)" does).
\* Matches after the first play no part.
C5_LinkResolution ==
  [][pc = "next" =>
       LET matches == LastPage.nexts
           link    == Strip(matches[1])
       IN  /\ matches = <<>> => EndsChain
           /\ (matches # <<>>
               /\ (StartsWith(link, <<"/">>) \/ StartsWith(link, src_baseurl)))
                => Advances(urljoin(src_baseurl, link))
           /\ (matches # <<>>
               /\ ~(StartsWith(link, <<"/">>) \/ StartsWith(link, src_baseurl)))
                => EndsChain
           /\ (matches # <<>> /\ link = L_ch2 /\ src_baseurl = BaseNovel)
                => Advances(R_ch2)
           /\ (matches # <<>> /\ link = L_js) => EndsChain]_vars

\* "/ch2" was resolved against "https://example.com/novel/"
C5_Witness ==
  /\ pc = "delay"
  /\ src_baseurl = BaseNovel
  /\ LastPage.nexts = <<L_ch2>>
  /\ url = Some(R_ch2)

\* C6: delay is called only in an iteration that goes on to the next fetch,
\* and is called once in each such iteration, with the cursor already moved to
\* the resolved next URL; it is not called in an iteration that ends the run;
\* a run that ends by the end-of-chapters exit after k pages has called it
\* k - 1 times.
C6_DelayOncePerContinuation ==
  /\ []((pc = "done" /\ outcome = "SystemExit") => delays = Len(served) - 1)
  /\ [](pc = "delay" =>
          (url # None /\ url = ResolveNext(LastPage.nexts, src_baseurl)))
  /\ [][/\ delays' # delays =>
             (delays' = delays + 1 /\ pc = "delay" /\ pc' = "fetch" /\ outcome' = "")
        /\ (pc # "config" /\ pc' = "fetch") => delays' = delays + 1
        /\ pc' = "done" => delays' = delays]_vars

\* C7: delay(average_ms) returns without an exception after a sleep of d
\* milliseconds, average_ms - floor(average_ms / 2) <= d and
\* d < average_ms + floor(average_ms / 2), for every average_ms >= 0.
C7_DelayCompletes ==
  [][pc = "delay" =>
       /\ outcome' = ""
       /\ pc' = "fetch"
       /\ rand_ms' # None
       /\ request_delay_ms - (request_delay_ms \div 2) <= rand_ms'[1]
       /\ rand_ms'[1] < request_delay_ms + (request_delay_ms \div 2)]_vars

\* C8: a base URL without "://" is rejected in front of the loop with an
\* error: no GET is issued and the output directory stays as it was; a base
\* URL with "://" starts the loop at the start URL.
C8_ConfigCheck ==
  /\ [](~Contains(src_baseurl, S_sep) =>
          /\ pc \in {"config", "done"}
          /\ pc = "done" => outcome = "SystemError"
          /\ gets = <<>>
          /\ created = <<>>
          /\ files = prior.files
          /\ archive = prior.archive)
  /\ [][pc = "config" =>
          IF Contains(src_baseurl, S_sep)
          THEN pc' = "fetch" /\ url' = Some(StartUrl) /\ outcome' = ""
          ELSE pc' = "done" /\ outcome' = "SystemError"]_vars

\* the base URL "example.com:80/" was rejected
C8_Witness ==
  /\ pc = "done"
  /\ outcome = "SystemError"
  /\ src_baseurl = BasePort
  /\ gets = <<>>

\* the first content node of the last page, lower-cased and trimmed
RawFirstLine == Strip(Lower(LastPage.contents[1]))

\* the first line starts with "chapter" or contains the lower-cased title
SelfDescribing ==
  \/ StartsWith(RawFirstLine, <<"c", "h", "a", "p", "t", "e", "r">>)
  \/ Contains(RawFirstLine, Lower(title))

\* the file written for the i-th page of this run
CreatedFile(i) == CHOOSE f \in files : f.name = created[i]

\* C9: the heading decision is taken on the lower-cased, trimmed text of the
\* first content node: if it starts with "chapter" or contains the lower-cased
\* title the final content is "## " and the normalized content, with no title
\* line; otherwise it is "## ", the title, a line separator and the normalized
\* content.  Every file written begins with "## ".
C9_HeadingReconciliation ==
  /\ pc = "write" =>
       ascii_content =
         IF SelfDescribing
         THEN <<"#", "#", " ">> \o NormalizeContent(LastPage.contents)
         ELSE <<"#", "#", " ">> \o title \o linesep
              \o NormalizeContent(LastPage.contents)
  /\ \A i \in 1..Len(created) :
       StartsWith(CreatedFile(i).text, <<"#", "#", " ">>)

\* a page whose first content node is blank and whose second node starts with
\* "chapter" was written with a title line
C9_Witness ==
  /\ pc = "append"
  /\ LastPage.contents = <<P_blank, P_ch2>>
  /\ ~SelfDescribing
  /\ CreatedFile(Len(created)).text =
       <<"#", "#", " ">> \o T_Two \o linesep \o NormalizeContent(LastPage.contents)

\* C10 as stated: with a self-describing first line the final content is the
\* normalized content prefixed with "## " and the title.
C10_TitlePrefixed ==
  (pc = "write" /\ SelfDescribing) =>
    \/ ascii_content =
         <<"#", "#", " ">> \o title \o NormalizeContent(LastPage.contents)
    \/ ascii_content =
         <<"#", "#", " ">> \o title \o linesep \o NormalizeContent(LastPage.contents)

\* C10, amended: with a self-describing first line the final content is the
\* normalized content prefixed with "## " alone; the title is not added.
C10_MarkerOnly ==
  (pc = "write" /\ SelfDescribing) =>
    ascii_content = <<"#", "#", " ">> \o NormalizeContent(LastPage.contents)

\* the title "Cafe 2" (with an accent) was found in the first line
C10_Witness ==
  /\ pc = "write"
  /\ SelfDescribing
  /\ title = T_Cafe
  /\ ~StartsWith(RawFirstLine, S_chapter)

\* a character that is neither a letter nor a digit
Separator(c) == c \notin (AsciiLetters \cup Digits)

\* s with every maximal run of separators replaced by one underscore
RunsAsUnderscore(s) ==
  LET kept == SelectSeq([i \in 1..Len(s) |-> i],
                        LAMBDA i : \/ ~Separator(s[i])
                                   \/ i = 1
                                   \/ ~Separator(s[i - 1]))
  IN  [k \in 1..Len(kept) |-> IF Separator(s[kept[k]]) THEN "_" ELSE s[kept[k]]]

Slug_Mixed == <<"_", "V", "_", "2", "_", "b", "s", "s">>

\* C11: the derived filename has no two consecutive underscores and no
\* whitespace character, and it is the transliterated title with every run of
\* whitespace or non-word characters (and of underscores adjoining them)
\* turned into exactly one underscore; every file name this run created has
\* the same shape and is that function of the title of its page.
C11_SlugShape ==
  /\ pc = "write" =>
       /\ \A i \in 1..(Len(filename) - 1) :
            ~(filename[i] = "_" /\ filename[i + 1] = "_")
       /\ \A i \in 1..Len(filename) : filename[i] \notin Whitespace
       /\ filename = RunsAsUnderscore(unidecode(title))
  /\ \A i \in 1..Len(created) :
       /\ \A k \in 1..(Len(created[i]) - 1) :
            ~(created[i][k] = "_" /\ created[i][k + 1] = "_")
       /\ \A k \in 1..Len(created[i]) : created[i][k] \notin Whitespace
       /\ created[i] = RunsAsUnderscore(unidecode(served[i].titles[1]))

\* the title " V_ 2!!<tab>b<sharp s>" was turned into "_V_2_bss"
C11_Witness ==
  /\ pc = "write"
  /\ title = T_Mixed
  /\ filename = Slug_Mixed

\* a page received with status 200 lacks a title match or a content match
Unextractable(page) ==
  page.status = 200 /\ (page.titles = <<>> \/ page.contents = <<>>)

\* C12: a page without a title match or without a content match aborts the
\* run with IndexError in its iteration: it is the last page received, no
\* file was created and nothing appended for it, and nothing is fetched
\* afterwards; a page without a next-link match ends the run by the
\* end-of-chapters exit, not by an error.
C12_ExtractionAborts ==
  /\ [](\A i \in 1..Len(served) :
          Unextractable(served[i]) =>
            /\ i = Len(served)
            /\ Len(gets) = i
            /\ Len(created) < i
            /\ pc \in {"status", "extract", "done"}
            /\ pc = "done" => outcome = "IndexError")
  /\ [][/\ (pc = "extract" /\ Unextractable(LastPage)) =>
             (/\ pc' = "done"
              /\ outcome' = "IndexError"
              /\ UNCHANGED <<gets, files, archive, created>>)
        /\ (pc = "next" /\ LastPage.nexts = <<>>) =>
             (pc' = "done" /\ outcome' = "SystemExit")
        /\ StaysStopped]_vars

\* the second page had a title but no content match
C12_Witness ==
  /\ pc = "done"
  /\ outcome = "IndexError"
  /\ Len(served) = 2
  /\ LastPage.titles # <<>>
  /\ LastPage.contents = <<>>
  /\ Len(created) = 1

RECURSIVE Entries(_)
\* the archive entries of the first k files this run created, in crawl order:
\* each file's text followed by one line separator
Entries(k) ==
  IF k = 0 THEN <<>> ELSE Entries(k - 1) \o CreatedFile(k).text \o linesep

\* the text of the archive before the run ("" if there was none)
PriorArchiveText == IF prior.archive = None THEN <<>> ELSE prior.archive[1]

\* the number of pages whose entry is due in the archive: the page just
\* written has its entry appended by the next step
Appended == IF pc = "append" THEN Len(created) - 1 ELSE Len(created)

StepOrder ==
  { <<"config", "fetch">>, <<"fetch", "status">>, <<"status", "extract">>,
    <<"extract", "write">>, <<"write", "append">>, <<"append", "next">>,
    <<"next", "delay">>, <<"delay", "fetch">> }

\* C14: the steps of an iteration happen in the order fetch, status check,
\* extraction, write, append, link resolution, delay (any of them may end the
\* run instead); a GET is issued by the fetch step only, once, to the cursor;
\* a run that ended by the end-of-chapters exit has written the file of every
\* page it received, the last one included; the number of GETs exceeds the
\* number of per-page files created by 0 or 1.
C14_StepOrder ==
  /\ [](Len(gets) - Len(created) \in {0, 1})
  /\ []((pc = "done" /\ outcome = "SystemExit") =>
          /\ Len(created) = Len(served)
          /\ Len(gets) = Len(served)
          /\ CreatedFile(Len(created)).name = filename)
  /\ [][/\ pc' # pc => (<<pc, pc'>> \in StepOrder \/ pc' = "done")
        /\ gets' # gets =>
             (pc = "fetch" /\ url # None /\ gets' = Append(gets, url[1]))
        /\ (pc = "fetch" /\ pc' # pc) => Len(gets') = Len(gets) + 1
        /\ created' # created => (pc = "write" /\ Len(gets) = Len(created) + 1)
        /\ archive' # archive => pc = "append"]_vars

\* a run of two pages ended by the end-of-chapters exit with both written
C14_Witness ==
  /\ pc = "done"
  /\ outcome = "SystemExit"
  /\ Len(gets) = 2
  /\ Len(created) = 2
  /\ LastPage.nexts = <<>>

\* the exceptions that abort the run (SystemExit is the end of the chain)
Errors ==
  {"SystemError", "ConnectionError", "RequestException", "IndexError",
   "FileExistsError", "ValueError"}

\* C15: nothing is cleaned up or rolled back: no step removes or changes a
\* per-page file or shortens the archive; the step that ends the run leaves
\* files and archive as they are; after it nothing happens (no retry, no skip
\* to another page); so when the run has aborted every file it created
\* exists, and the archive holds the entries appended.
C15_NoRollback ==
  /\ []((pc = "done" /\ outcome \in Errors) =>
          /\ \A i \in 1..Len(created) : \E f \in files : f.name = created[i]
          /\ prior.files \subseteq files
          /\ serie_combine_flag =>
               archive = IF Len(created) = 0 THEN prior.archive
                         ELSE Some(PriorArchiveText \o Entries(Len(created))))
  /\ [][/\ files \subseteq files'
        /\ archive # None =>
             (archive' # None /\ StartsWith(archive'[1], archive[1]))
        /\ pc' = "done" => UNCHANGED <<files, archive, created>>
        /\ StaysStopped]_vars

\* the third page answered with a bad status after two pages had been
\* written and appended
C15_Witness ==
  /\ pc = "done"
  /\ outcome = "RequestException"
  /\ serie_combine_flag
  /\ Len(created) = 2
  /\ Len(served) = 3
  /\ \A i \in 1..2 : CreatedFile(i) \in files
  /\ archive = Some(PriorArchiveText \o Entries(2))

\* what follows the heading in the final content of the last page
Body ==
  IF SelfDescribing THEN From(ascii_content, 4)
  ELSE From(ascii_content, 4 + Len(title) + Len(linesep))

\* C16: the normalized content is the concatenation of each node's text plus
\* a line separator, then the escapes made real, then transliterated, then
\* trimmed; it has no leading or trailing whitespace and trimming it again
\* changes nothing.
C16_NormalizeOrder ==
  pc = "write" =>
    /\ Body = Strip(unidecode(Replace2(Replace2(JoinContents(LastPage.contents),
                                                "\\", "n", <<"\n">>),
                                       "\\", "r", <<"\r">>)))
    /\ Body # <<>> =>
         (Body[1] \notin Whitespace /\ Body[Len(Body)] \notin Whitespace)
    /\ Strip(Body) = Body

\* a content node ending in a literal backslash-n was normalized to "fin."
C16_Witness ==
  /\ pc = "write"
  /\ LastPage.contents = <<P_esc>>
  /\ Body = <<"f", "i", "n", ".">>

\* what was received so far is what a site serves on which every URL always
\* answers with the same healthy page
ConsistentSite ==
  /\ Len(gets) = Len(served)
  /\ \A i \in 1..Len(served) : Healthy(served[i])
  /\ \A i, j \in 1..Len(served) : gets[i] = gets[j] => served[i] = served[j]

\* the URLs requested so far
Visited == {gets[i] : i \in 1..Len(gets)}

\* C17: on such a site a URL is requested a second time at most once, by the
\* last GET of the run: that visit derives the file name of the first visit,
\* writes nothing, and ends the run with FileExistsError; so no URL is
\* persisted twice and a run issues at most one GET more than there are
\* URLs, cycle or not.
C17_CycleStops ==
  ConsistentSite =>
    /\ \A i, j \in 1..Len(gets) :
         (i < j /\ gets[i] = gets[j]) =>
           /\ j = Len(gets)
           /\ Len(created) = j - 1
           /\ pc \in {"status", "extract", "write", "done"}
           /\ pc = "write" => (filename = created[i] /\ Exists(files, filename))
           /\ pc = "done" => outcome = "FileExistsError"
    /\ \A i, j \in 1..Len(created) : i # j => gets[i] # gets[j]
    /\ Len(gets) <= Cardinality(Visited) + 1

\* a cycle of two pages: the third GET went to the start URL again and the
\* run ended with FileExistsError
C17_Witness ==
  /\ ConsistentSite
  /\ pc = "done"
  /\ outcome = "FileExistsError"
  /\ Len(gets) = 3
  /\ gets[3] = gets[1]
  /\ gets[2] # gets[1]
  /\ Len(created) = 2

\* u has the scheme and the network location of the configured base URL
SameOrigin(u) ==
  /\ urlsplit(u, <<>>).scheme = urlsplit(src_baseurl, <<>>).scheme
  /\ urlsplit(u, <<>>).netloc = urlsplit(src_baseurl, <<>>).netloc

\* C18: every URL the cursor advances to after the start URL, and so every
\* URL requested after the first, has the scheme and host of the base URL.
C18_StaysOnHost ==
  /\ \A i \in 2..Len(gets) : SameOrigin(gets[i])
  /\ (pc \in {"delay", "fetch"} /\ Len(gets) >= 1 /\ url # None) => SameOrigin(url[1])

====
